---- MODULE Spec2Model ----
(***************************************************************************)
(* Model of SalesDataETL (src/Python/etl_pipeline.py): the four stages of  *)
(* run_etl_pipeline (connect, extract, transform, load) over in-memory     *)
(* tables.  A DataFrame is a sequence of rows, a row is a record of        *)
(* nullable cells, a nullable cell is <<>> (NaN / None / NaT) or <<v>>.    *)
(* Text cells (names, ids) are integer codes ordered like the strings.     *)
(* Columns that no statement of the transform reads (sales_rep_id,         *)
(* region_id, category_id, brand, list_price, customer_name,               *)
(* customer_type, signup_date, day_of_week, week_of_year,                  *)
(* customer_lifetime) are left out of the rows.                            *)
(***************************************************************************)
EXTENDS Integers, Sequences, FiniteSets, TLC

VARIABLES
    db,              \* the source database: tables sales, products, customers
    fault,           \* which calls to the collaborators raise in this run
    pc,              \* position inside run_etl_pipeline
    engine,          \* self.engine (FALSE is None)
    raw_data,        \* self.raw_data, a dict
    processed_data,  \* self.processed_data, a dict
    csv_files,       \* tables written under data/processed/
    db_tables,       \* tables written as processed_<name>
    result,          \* return value of run_etl_pipeline
    log,             \* the messages logged so far
    seg_row,         \* a CustomerMetrics row handed to categorize_customer
    seg_label        \* the label categorize_customer returned for seg_row

vars == <<db, fault, pc, engine, raw_data, processed_data, csv_files,
          db_tables, result, log, seg_row, seg_label>>

---------------------------------------------------------------------------
(* Nullable cells and NaN-propagating arithmetic.                          *)

NULL == <<>>
Some(v) == <<v>>
IsNull(x) == x = NULL
NotNull(x) == x # NULL
Val(x) == x[1]

Mul(a, b) == IF IsNull(a) \/ IsNull(b) THEN NULL ELSE Some(Val(a) * Val(b))
Sub(a, b) == IF IsNull(a) \/ IsNull(b) THEN NULL ELSE Some(Val(a) - Val(b))

EmptyDict == <<>>
Truthy(d) == DOMAIN d # {}

RECURSIVE Flatten(_)
Flatten(ss) == IF ss = <<>> THEN <<>> ELSE Head(ss) \o Flatten(Tail(ss))

---------------------------------------------------------------------------
(* Dates.  A raw transaction_date is NULL or a number YYYYMM (the text     *)
(* "YYYY-MM").  to_datetime raises on a value that names no calendar       *)
(* month, maps NULL to NaT and any other value to a timestamp, here the    *)
(* number of months since year 0.                                          *)

DateParses(d) == IsNull(d) \/ (Val(d) % 100) \in 1..12
to_datetime(d) ==
    IF IsNull(d) THEN NULL
    ELSE Some((Val(d) \div 100) * 12 + ((Val(d) % 100) - 1))
dt_year(t) == IF IsNull(t) THEN NULL ELSE Some(Val(t) \div 12)
dt_month(t) == IF IsNull(t) THEN NULL ELSE Some((Val(t) % 12) + 1)
dt_quarter(t) == IF IsNull(t) THEN NULL ELSE Some(((Val(t) % 12) \div 3) + 1)

---------------------------------------------------------------------------
(* DataFrame operations.                                                   *)

\* df.copy() of a freshly read table: the rows with their RangeIndex labels.
WithIndex(df) == [i \in 1..Len(df) |-> df[i] @@ ("index" :> (i - 1))]

\* df.dropna(subset=...): keep the rows whose subset cells are all non-null.
dropna(df, subset) ==
    SelectSeq(df, LAMBDA r : \A c \in subset : NotNull(r[c]))

\* Mutant of FilterPositive: the comparison is >= 0.
FilterNonNegative(df, col) ==
    SelectSeq(df, LAMBDA r : NotNull(r[col]) /\ Val(r[col]) >= 0)

\* df[df[col] > 0]: a comparison with NaN is False.
FilterPositive(df, col) ==
    SelectSeq(df, LAMBDA r : NotNull(r[col]) /\ Val(r[col]) > 0)

\* Series aligned on index labels: the cell of `col` at label `idx` of a
\* table with a RangeIndex, NaN where the table has no such label.
AtLabel(df, idx, col) == IF idx + 1 \in 1..Len(df) THEN df[idx + 1][col] ELSE NULL

\* The columns of a row, without its index label.
Columns(r) == [c \in (DOMAIN r) \ {"index"} |-> r[c]]

\* Mutant of MergeRow: an inner join, which drops the unmatched left row.
MergeRowInner(l, right, on, cols) ==
    LET m == SelectSeq(right, LAMBDA r : r[on] = l[on])
    IN  [i \in 1..Len(m) |-> Columns(l) @@ [c \in cols |-> m[i][c]]]

\* One left row joined with the right table: a row per matching right row in
\* the right table's order (keys compare equal also when both are null), or
\* one row with null right columns when nothing matches.
MergeRow(l, right, on, cols) ==
    LET m == SelectSeq(right, LAMBDA r : r[on] = l[on])
    IN  IF m = <<>>
        THEN << Columns(l) @@ [c \in cols |-> NULL] >>
        ELSE [i \in 1..Len(m) |-> Columns(l) @@ [c \in cols |-> m[i][c]]]

\* left.merge(right, on=on, how='left'); cols are right's other columns.  The
\* result has the left rows' order and a fresh index.
merge(left, right, on, cols) ==
    Flatten([i \in 1..Len(left) |-> MergeRow(left[i], right, on, cols)])

\* The key of a row under groupby(by): the tuple of its key cells.
KeyOf(r, by) == [i \in 1..Len(by) |-> r[by[i]]]

\* groupby drops the rows with a null key cell (dropna=True).
GroupKeys(df, by) ==
    { KeyOf(df[i], by) : i \in { j \in 1..Len(df) :
                                   \A k \in 1..Len(by) : NotNull(df[j][by[k]]) } }

\* Lexicographic order on keys of non-null cells.
RECURSIVE KeyLess(_, _)
KeyLess(a, b) ==
    IF a = <<>> \/ b = <<>> THEN FALSE
    ELSE IF Val(Head(a)) # Val(Head(b)) THEN Val(Head(a)) < Val(Head(b))
    ELSE KeyLess(Tail(a), Tail(b))

\* groupby(sort=True): the group keys in ascending order.
RECURSIVE SortKeys(_)
SortKeys(S) ==
    IF S = {} THEN <<>>
    ELSE LET m == CHOOSE k \in S : \A o \in S \ {k} : KeyLess(k, o)
         IN  <<m>> \o SortKeys(S \ {m})

\* The rows of one group, in table order.
GroupRows(df, by, key) == SelectSeq(df, LAMBDA r : KeyOf(r, by) = key)

\* agg 'sum': nulls are skipped; the sum of no values is 0.
RECURSIVE agg_sum(_, _)
agg_sum(rows, col) ==
    IF rows = <<>> THEN 0
    ELSE (IF IsNull(Head(rows)[col]) THEN 0 ELSE Val(Head(rows)[col]))
         + agg_sum(Tail(rows), col)

\* agg 'count': the number of non-null cells.
agg_count(rows, col) == Len(SelectSeq(rows, LAMBDA r : NotNull(r[col])))

\* agg 'min' / 'max': over the non-null cells, null when there is none.
agg_min(rows, col) ==
    LET vs == { Val(rows[i][col]) : i \in { j \in 1..Len(rows) : NotNull(rows[j][col]) } }
    IN  IF vs = {} THEN NULL ELSE Some(CHOOSE v \in vs : \A w \in vs : v <= w)
agg_max(rows, col) ==
    LET vs == { Val(rows[i][col]) : i \in { j \in 1..Len(rows) : NotNull(rows[j][col]) } }
    IN  IF vs = {} THEN NULL ELSE Some(CHOOSE v \in vs : \A w \in vs : v >= w)

\* df.sort_values(col, ascending=False) with the default kind, quicksort,
\* which is not stable: every arrangement of the rows in which col does not
\* increase is a possible result.
sort_values_desc(df, col) ==
    { s \in { [i \in 1..Len(df) |-> df[p[i]]] : p \in Permutations(1..Len(df)) } :
        \A i \in 1..Len(s) : \A j \in 1..Len(s) :
            i < j => Val(s[i][col]) >= Val(s[j][col]) }

---------------------------------------------------------------------------
(* transform_sales_data, statement by statement.                           *)

ProductColumns == {"product_name", "category_name", "cost_price"}
CustomerColumns == {"region_name"}

\* Mutant of CleanSales: dropna on total_amount alone.
CleanSalesKeepNullId(sales) ==
    LET copy == WithIndex(sales)
        parsed == [i \in 1..Len(copy) |->
                     [copy[i] EXCEPT !.transaction_date = to_datetime(@)]]
    IN  FilterPositive(dropna(parsed, {"total_amount"}), "total_amount")

\* Data cleaning: parse the dates, drop the rows with a null transaction_id
\* or total_amount, keep the rows with total_amount > 0.
CleanSales(sales) ==
    LET copy == WithIndex(sales)
        parsed == [i \in 1..Len(copy) |->
                     [copy[i] EXCEPT !.transaction_date = to_datetime(@)]]
    IN  FilterPositive(dropna(parsed, {"transaction_id", "total_amount"}),
                       "total_amount")

\* sales_df['revenue'] = quantity_sold * unit_price
Revenue(r) == Mul(r.quantity_sold, r.unit_price)

\* sales_df['profit_margin'] = total_amount - quantity_sold * products['cost_price']:
\* the two Series are aligned on their index labels, so the row that kept
\* label i of the raw sales table meets the cost_price at label i of the
\* products table.
ProfitMargin(r, products) ==
    Sub(r.total_amount, Mul(r.quantity_sold, AtLabel(products, r.index, "cost_price")))

SalesColumns == {"transaction_id", "transaction_date", "product_id", "customer_id",
                 "quantity_sold", "unit_price", "total_amount"}

\* Setting a column of a frame without rows to a Series that has entries:
\* the frame takes the Series' index, one row per label, every cell of its
\* columns missing.  The Series of line 147 is indexed by the union of the
\* sales and products labels, so an empty sales_df gets a row per products
\* row.
AdoptIndex(columns, n) ==
    [i \in 1..n |-> [c \in columns |-> NULL] @@ ("index" :> (i - 1))]

\* Create derived columns: revenue, then profit_margin (on an empty
\* sales_df with the products' index adopted), then the calendar parts.
DeriveFeatures(sales_df, products) ==
    LET withRevenue == [i \in 1..Len(sales_df) |->
                          sales_df[i] @@ [revenue |-> Revenue(sales_df[i])]]
        frame == IF sales_df = <<>>
                 THEN AdoptIndex(SalesColumns \cup {"revenue"}, Len(products))
                 ELSE withRevenue
    IN  [i \in 1..Len(frame) |->
            LET r == frame[i]
            IN  r @@ [profit_margin |-> ProfitMargin(r, products),
                      year          |-> dt_year(r.transaction_date),
                      month         |-> dt_month(r.transaction_date),
                      quarter       |-> dt_quarter(r.transaction_date)]]

\* Join with product information, then with customer information.
JoinDimensions(sales_df, products, customers) ==
    merge(merge(sales_df, products, "product_id", ProductColumns),
          customers, "customer_id", CustomerColumns)

\* Monthly revenue summary.
MonthlyRevenue(sales_enhanced) ==
    LET by == <<"year", "month", "region_name">>
        keys == SortKeys(GroupKeys(sales_enhanced, by))
    IN  [i \in 1..Len(keys) |->
            LET g == GroupRows(sales_enhanced, by, keys[i])
            IN  [year              |-> keys[i][1],
                 month             |-> keys[i][2],
                 region            |-> keys[i][3],
                 revenue           |-> Some(agg_sum(g, "revenue")),
                 total_sales       |-> Some(agg_sum(g, "total_amount")),
                 units_sold        |-> Some(agg_sum(g, "quantity_sold")),
                 transaction_count |-> Some(agg_count(g, "transaction_id"))]]

\* Product performance summary, before it is sorted.
ProductGroups(sales_enhanced) ==
    LET by == <<"category_name", "product_name">>
        keys == SortKeys(GroupKeys(sales_enhanced, by))
    IN  [i \in 1..Len(keys) |->
            LET g == GroupRows(sales_enhanced, by, keys[i])
            IN  [category_name |-> keys[i][1],
                 product_name  |-> keys[i][2],
                 revenue       |-> Some(agg_sum(g, "revenue")),
                 quantity_sold |-> Some(agg_sum(g, "quantity_sold")),
                 profit_margin |-> Some(agg_sum(g, "profit_margin"))]]

\* The possible product_performance tables.
ProductPerformance(sales_enhanced) ==
    sort_values_desc(ProductGroups(sales_enhanced), "revenue")

VipRevenue == 10000
VipFrequency == 10
HighValueRevenue == 5000
HighValueFrequency == 5
RegularRevenue == 1000

\* Mutant of categorize_customer: the second rule is tested first.
categorize_customer_reordered(row) ==
    IF Val(row.total_revenue) >= HighValueRevenue
         \/ Val(row.transaction_frequency) >= HighValueFrequency
    THEN "High Value"
    ELSE IF Val(row.total_revenue) >= VipRevenue
              /\ Val(row.transaction_frequency) >= VipFrequency
    THEN "VIP"
    ELSE IF Val(row.total_revenue) >= RegularRevenue
    THEN "Regular"
    ELSE "Low Value"

\* Customer segmentation logic.
categorize_customer(row) ==
    IF Val(row.total_revenue) >= VipRevenue
         /\ Val(row.transaction_frequency) >= VipFrequency
    THEN "VIP"
    ELSE IF Val(row.total_revenue) >= HighValueRevenue
              \/ Val(row.transaction_frequency) >= HighValueFrequency
    THEN "High Value"
    ELSE IF Val(row.total_revenue) >= RegularRevenue
    THEN "Regular"
    ELSE "Low Value"

\* The number of transactions of a group: agg 'count' of transaction_id.
TransactionFrequency(g) == agg_count(g, "transaction_id")

\* Customer segmentation: the metrics per customer_id, then the label.
\* avg_order_value is kept as the fraction <<total_revenue, transaction_frequency>>.
CustomerMetrics(sales_enhanced) ==
    LET by == <<"customer_id">>
        keys == SortKeys(GroupKeys(sales_enhanced, by))
    IN  [i \in 1..Len(keys) |->
            LET g == GroupRows(sales_enhanced, by, keys[i])
                m == [customer_id           |-> keys[i][1],
                      total_revenue         |-> Some(agg_sum(g, "revenue")),
                      transaction_frequency |-> Some(TransactionFrequency(g)),
                      first_purchase        |-> agg_min(g, "transaction_date"),
                      last_purchase         |-> agg_max(g, "transaction_date")]
            IN  m @@ [avg_order_value  |-> <<agg_sum(g, "revenue"), TransactionFrequency(g)>>,
                      customer_segment |-> categorize_customer(m)]]

---------------------------------------------------------------------------
(* The stages.  Each returns what the method leaves in self, its return    *)
(* value and the messages it logs.                                         *)

SqlReads == <<"sales", "products", "customers">>
OutputTables == <<"sales_enhanced", "monthly_revenue", "product_performance",
                  "customer_segments">>

\* connect_to_database: create_engine raises or not.
connect_to_database(flt) ==
    IF flt.connect
    THEN [engine |-> FALSE, ret |-> FALSE, log |-> <<"connect:error">>]
    ELSE [engine |-> TRUE, ret |-> TRUE, log |-> <<"connect:ok">>]

\* Mutant of ExtractReturn: self.raw_data also after a failed read.
ExtractReturnRawData(sql_failed, raw) == raw

\* What extract_sales_data returns after the database reads: {} when one of
\* them raised, self.raw_data otherwise.
ExtractReturn(sql_failed, raw) == IF sql_failed THEN EmptyDict ELSE raw

\* extract_sales_data: the three read_sql calls in one try block (the
\* flt.sql_read-th raises, 0 for none), then read_excel in a try block of its
\* own, whose failure is logged and nothing more.
extract_sales_data(database, flt, raw) ==
    LET k == flt.sql_read
        nread == IF k = 0 THEN Len(SqlReads) ELSE k - 1
        afterSql == [t \in {SqlReads[i] : i \in 1..nread} |-> database[t]] @@ raw
        readLog == [i \in 1..nread |-> "extract:read_" \o SqlReads[i]]
        afterExcel == IF flt.excel THEN afterSql ELSE ("targets" :> <<>>) @@ afterSql
    IN  IF k # 0
        THEN [raw_data |-> afterSql,
              ret |-> ExtractReturn(TRUE, afterSql),
              log |-> <<"extract:start">> \o readLog \o <<"extract:db_error">>]
        ELSE [raw_data |-> afterExcel,
              ret |-> ExtractReturn(FALSE, afterExcel),
              log |-> <<"extract:start">> \o readLog
                      \o <<IF flt.excel THEN "extract:excel_error" ELSE "extract:read_targets">>]

\* transform_sales_data: the set of possible outcomes.  The try block raises
\* when a raw table is missing or when a date does not parse (before any
\* output is stored).  When customer_metrics is empty the outcome depends on
\* the installed pandas, which the repository does not pin: apply(axis=1)
\* on an empty frame either returns an empty Series (the label column is
\* set, the transform succeeds with an empty customer_segments) or returns a
\* DataFrame, which cannot be set as the column customer_segment (the try
\* block raises after the first three outputs are stored).
transform_sales_data(raw, processed) ==
    IF ~({"sales", "products", "customers"} \subseteq DOMAIN raw)
       \/ \E i \in 1..Len(raw.sales) : ~DateParses(raw.sales[i].transaction_date)
    THEN {[processed_data |-> processed, ret |-> EmptyDict,
           log |-> <<"transform:start", "transform:error">>]}
    ELSE LET sales_df == DeriveFeatures(CleanSales(raw.sales), raw.products)
             sales_enhanced == JoinDimensions(sales_df, raw.products, raw.customers)
             monthly_revenue == MonthlyRevenue(sales_enhanced)
             customer_metrics == CustomerMetrics(sales_enhanced)
             stored(pp) == ("sales_enhanced" :> sales_enhanced)
                           @@ ("monthly_revenue" :> monthly_revenue)
                           @@ ("product_performance" :> pp) @@ processed
             all(pp) == ("customer_segments" :> customer_metrics) @@ stored(pp)
             succeeded == { [processed_data |-> all(pp), ret |-> all(pp),
                             log |-> <<"transform:start", "transform:ok">>]
                            : pp \in ProductPerformance(sales_enhanced) }
             raised == { [processed_data |-> stored(pp), ret |-> EmptyDict,
                          log |-> <<"transform:start", "transform:error">>]
                         : pp \in ProductPerformance(sales_enhanced) }
         IN  IF customer_metrics = <<>> THEN succeeded \cup raised ELSE succeeded

\* The number of writes of a loop over `names` that complete when the
\* fail_at-th write raises (0: none raises).
WritesDone(names, fail_at) ==
    IF fail_at \in 1..Len(names) THEN fail_at - 1 ELSE Len(names)

\* load_processed_data: a to_csv per table in the dict's order, then, with
\* an engine, a to_sql per table; the first write that raises ends the
\* method, and what was written before it stays written.
load_processed_data(processed, eng, flt, csv, dbt) ==
    LET names == SelectSeq(OutputTables, LAMBDA t : t \in DOMAIN processed)
        ncsv == WritesDone(names, flt.to_csv)
        csvFailed == ncsv < Len(names)
        nsql == IF csvFailed \/ ~eng THEN 0 ELSE WritesDone(names, flt.to_sql)
        sqlFailed == ~csvFailed /\ eng /\ nsql < Len(names)
    IN  [csv_files |-> csv \cup {names[i] : i \in 1..ncsv},
         db_tables |-> dbt \cup {names[i] : i \in 1..nsql},
         ret |-> ~(csvFailed \/ sqlFailed),
         log |-> <<"load:start">>
                 \o [i \in 1..ncsv |-> "load:saved_" \o names[i]]
                 \o [i \in 1..nsql |-> "load:loaded_" \o names[i]]
                 \o (IF csvFailed \/ sqlFailed THEN <<"load:error">> ELSE <<>>)]

---------------------------------------------------------------------------
(* run_etl_pipeline, one step per stage.                                   *)

Connect ==
    /\ pc = "connect"
    /\ LET r == connect_to_database(fault)
       IN  /\ engine' = r.engine
           /\ IF r.ret
              THEN /\ pc' = "extract"
                   /\ result' = result
                   /\ log' = log \o <<"run:start">> \o r.log
              ELSE /\ pc' = "done"
                   /\ result' = "False"
                   /\ log' = log \o <<"run:start">> \o r.log
    /\ UNCHANGED <<db, fault, raw_data, processed_data, csv_files, db_tables,
                   seg_row, seg_label>>

Extract ==
    /\ pc = "extract"
    /\ LET r == extract_sales_data(db, fault, raw_data)
       IN  /\ raw_data' = r.raw_data
           /\ IF Truthy(r.ret)
              THEN /\ pc' = "transform"
                   /\ result' = result
                   /\ log' = log \o r.log
              ELSE /\ pc' = "done"
                   /\ result' = "False"
                   /\ log' = log \o r.log \o <<"run:extract_failed">>
    /\ UNCHANGED <<db, fault, engine, processed_data, csv_files, db_tables,
                   seg_row, seg_label>>

Transform ==
    /\ pc = "transform"
    /\ \E r \in transform_sales_data(raw_data, processed_data) :
           /\ processed_data' = r.processed_data
           /\ IF Truthy(r.ret)
              THEN /\ pc' = "load"
                   /\ result' = result
                   /\ log' = log \o r.log
              ELSE /\ pc' = "done"
                   /\ result' = "False"
                   /\ log' = log \o r.log \o <<"run:transform_failed">>
    /\ UNCHANGED <<db, fault, engine, raw_data, csv_files, db_tables,
                   seg_row, seg_label>>

Load ==
    /\ pc = "load"
    /\ LET r == load_processed_data(processed_data, engine, fault, csv_files, db_tables)
       IN  /\ csv_files' = r.csv_files
           /\ db_tables' = r.db_tables
           /\ pc' = "done"
           /\ IF r.ret
              THEN /\ result' = "True"
                   /\ log' = log \o r.log \o <<"run:ok">>
              ELSE /\ result' = "False"
                   /\ log' = log \o r.log \o <<"run:load_failed">>
    /\ UNCHANGED <<db, fault, engine, raw_data, processed_data, seg_row, seg_label>>

\* categorize_customer applied to one CustomerMetrics row.
Categorize ==
    /\ pc = "segment"
    /\ seg_label = ""
    /\ seg_label' = categorize_customer(seg_row)
    /\ UNCHANGED <<db, fault, pc, engine, raw_data, processed_data, csv_files,
                   db_tables, result, log, seg_row>>

Next == Connect \/ Extract \/ Transform \/ Load

NextSeg == Categorize

---------------------------------------------------------------------------
(* Inputs and initial states.                                              *)

MaxRunSales == 1
MaxCleanSales == 2
MaxJoinSales == 2
MaxProducts == 2
MaxCustomers == 2
MaxAggSales == 2
MaxFrequency == 12

BoundedSeq(S, n) == UNION { [1..k -> S] : k \in 0..n }

Txn(tid, date, pid, cid, qty, price, amt) ==
    [transaction_id |-> tid, transaction_date |-> date, product_id |-> pid,
     customer_id |-> cid, quantity_sold |-> qty, unit_price |-> price,
     total_amount |-> amt]

\* Product p: its name is p, its category 1, its cost price p + 2.
Product(p) ==
    [product_id |-> Some(p), product_name |-> Some(p), category_name |-> Some(1),
     cost_price |-> Some(p + 2)]

\* Customer c lives in region c.
Customer(c) == [customer_id |-> Some(c), region_name |-> Some(c)]

NoFault == [connect |-> FALSE, sql_read |-> 0, excel |-> FALSE, to_csv |-> 0,
            to_sql |-> 0]

Faults == [connect : BOOLEAN, sql_read : 0..Len(SqlReads), excel : BOOLEAN,
           to_csv : 0..Len(OutputTables), to_sql : 0..Len(OutputTables)]

\* The state of a SalesDataETL object after __init__, before run_etl_pipeline.
Constructed ==
    /\ pc = "connect"
    /\ engine = FALSE
    /\ raw_data = EmptyDict
    /\ processed_data = EmptyDict
    /\ csv_files = {}
    /\ db_tables = {}
    /\ result = "None"
    /\ log = <<>>
    /\ seg_row = <<>>
    /\ seg_label = ""

\* Runs with faults: a sale with no date, with a date that parses or with
\* one that does not.
RunRows == { Txn(Some(1), d, Some(1), Some(1), Some(2), Some(5), Some(100)) :
             d \in {NULL, Some(202401), Some(202413)} }

Init ==
    /\ db \in { [sales |-> s, products |-> <<Product(1)>>, customers |-> <<Customer(1)>>] :
                s \in BoundedSeq(RunRows, MaxRunSales) }
    /\ fault \in Faults
    /\ Constructed

\* Cleaning: null and non-positive cells in the sales table.
CleanRows == { Txn(tid, Some(202401), Some(1), Some(1), qty, price, amt) :
               tid \in {NULL, Some(1)},
               amt \in {NULL, Some(0 - 50), Some(0), Some(100)},
               qty \in {NULL, Some(2)},
               price \in {NULL, Some(5)} }

InitClean ==
    /\ db \in { [sales |-> s, products |-> <<Product(1)>>, customers |-> <<Customer(1)>>] :
                s \in BoundedSeq(CleanRows, MaxCleanSales) }
    /\ fault = NoFault
    /\ Constructed

\* Joins: product ids with and without a product row, rows that cleaning
\* drops, dimension tables of any order, with repeated keys.
JoinRows == { Txn(Some(1), Some(202401), Some(pid), Some(1), Some(2), Some(5), amt) :
              pid \in {1, 2, 3}, amt \in {Some(0), Some(100)} }

InitJoin ==
    /\ db \in { [sales |-> s, products |-> p, customers |-> c] :
                s \in BoundedSeq(JoinRows, MaxJoinSales),
                p \in BoundedSeq({Product(1), Product(2)}, MaxProducts),
                c \in BoundedSeq({Customer(1), Customer(2)}, MaxCustomers) }
    /\ fault = NoFault
    /\ Constructed

\* Aggregations: customers with and without a customer row, two months,
\* two products, two quantities.
AggRows == { Txn(tid, Some(date), Some(pid), cid, Some(qty), Some(5), Some(100)) :
             tid \in {NULL, Some(1)},
             date \in {202401, 202402},
             pid \in {1, 2},
             cid \in {NULL, Some(1), Some(2)},
             qty \in {1, 2} }

InitAgg ==
    /\ db \in { [sales |-> s, products |-> <<Product(1), Product(2)>>,
                 customers |-> <<Customer(1)>>] :
                s \in BoundedSeq(AggRows, MaxAggSales) }
    /\ fault = NoFault
    /\ Constructed

\* categorize_customer on its own: revenues around the thresholds.
SegRevenues == {0, 200, 999, 1000, 1500, 4999, 5000, 6000, 9999, 10000, 12000}

InitSeg ==
    /\ db = [sales |-> <<>>, products |-> <<>>, customers |-> <<>>]
    /\ fault = NoFault
    /\ pc = "segment"
    /\ engine = FALSE
    /\ raw_data = EmptyDict
    /\ processed_data = EmptyDict
    /\ csv_files = {}
    /\ db_tables = {}
    /\ result = "None"
    /\ log = <<>>
    /\ seg_row \in { [total_revenue |-> Some(r), transaction_frequency |-> Some(f)] :
                     r \in SegRevenues, f \in 0..MaxFrequency }
    /\ seg_label = ""

Spec == Init /\ [][Next]_vars
SpecClean == InitClean /\ [][Next]_vars
SpecJoin == InitJoin /\ [][Next]_vars
SpecAgg == InitAgg /\ [][Next]_vars
SpecSeg == InitSeg /\ [][NextSeg]_vars

---------------------------------------------------------------------------
(* Properties.                                                             *)

Stored(name) == name \in DOMAIN processed_data
Logged(m) == \E i \in 1..Len(log) : log[i] = m
\* transform_sales_data succeeded with at least one customer, which it does
\* under every pandas.
TransformSucceeded ==
    /\ Logged("transform:ok")
    /\ processed_data.customer_segments # <<>>

IsPrefix(a, b) == Len(a) <= Len(b) /\ \A i \in 1..Len(a) : a[i] = b[i]

\* C1: the label categorize_customer gives a CustomerMetrics row is the
\* first match of the ordered rules over (total_revenue,
\* transaction_frequency): VIP iff revenue >= 10000 and frequency >= 10;
\* else High Value iff revenue >= 5000 or frequency >= 5; else Regular iff
\* revenue >= 1000; else Low Value; so (12000,12) is VIP, (6000,2) High
\* Value, (1500,1) Regular and (200,1) Low Value.
C1_OrderedDecisionList ==
    seg_label # "" =>
        LET rev == Val(seg_row.total_revenue)
            freq == Val(seg_row.transaction_frequency)
            rule1 == rev >= 10000 /\ freq >= 10
            rule2 == ~rule1 /\ (rev >= 5000 \/ freq >= 5)
            rule3 == ~rule1 /\ ~rule2 /\ rev >= 1000
        IN  /\ (seg_label = "VIP") <=> rule1
            /\ (seg_label = "High Value") <=> rule2
            /\ (seg_label = "Regular") <=> rule3
            /\ (seg_label = "Low Value") <=> (~rule1 /\ ~rule2 /\ ~rule3)
            /\ (rev = 12000 /\ freq = 12) => seg_label = "VIP"
            /\ (rev = 6000 /\ freq = 2) => seg_label = "High Value"
            /\ (rev = 1500 /\ freq = 1) => seg_label = "Regular"
            /\ (rev = 200 /\ freq = 1) => seg_label = "Low Value"

\* A row that meets rule 1's revenue threshold but not its frequency
\* threshold has fallen through to rule 2.
C1_Witness ==
    /\ seg_label = "High Value"
    /\ Val(seg_row.total_revenue) >= 10000
    /\ Val(seg_row.transaction_frequency) < 5

\* C2: after a transform_sales_data that succeeded the revenue of all monthly_revenue groups
\* sums to the revenue of all sales_enhanced rows, also when a
\* transaction's customer_id has no row in the customer table.
C2_AggregateConservation ==
    TransformSucceeded =>
        agg_sum(processed_data.monthly_revenue, "revenue")
            = agg_sum(processed_data.sales_enhanced, "revenue")

\* C3: every retained transaction's profit_margin is total_amount -
\* quantity_sold * cost_price of a product row with its product_id, whatever
\* the order of the tables; with no such product row the profit_margin,
\* category_name and product_name are null and the revenue is not.
C3_ProfitMarginByProductId ==
    TransformSucceeded =>
        \A i \in 1..Len(processed_data.sales_enhanced) :
            LET t == processed_data.sales_enhanced[i]
                ps == { j \in 1..Len(raw_data.products) :
                          raw_data.products[j].product_id = t.product_id }
            IN  IF ps = {}
                THEN /\ IsNull(t.profit_margin)
                     /\ NotNull(t.revenue)
                     /\ IsNull(t.category_name)
                     /\ IsNull(t.product_name)
                ELSE \E j \in ps :
                        t.profit_margin =
                            Sub(t.total_amount,
                                Mul(t.quantity_sold, raw_data.products[j].cost_price))

Survives(r) ==
    /\ NotNull(r.transaction_id)
    /\ NotNull(r.total_amount)
    /\ Val(r.total_amount) > 0

UniqueKey(df, key) ==
    \A i \in 1..Len(df) : \A j \in 1..Len(df) : i # j => df[i][key] # df[j][key]

HasKey(df, key, v) == \E i \in 1..Len(df) : df[i][key] = v

\* C4: with product_id unique in the product table and customer_id unique
\* in the customer table, sales_enhanced has the rows of the cleaned,
\* feature-derived sales table (the table the joins are given), each
\* exactly once and in the same order, and a row without a matching product
\* or customer is kept with null dimension columns; when cleaning keeps any
\* row, these are as many rows as cleaning kept.
C4_LeftJoinKeepsRows ==
    (Stored("sales_enhanced")
       /\ UniqueKey(raw_data.products, "product_id")
       /\ UniqueKey(raw_data.customers, "customer_id")) =>
        LET se == processed_data.sales_enhanced
            sales_df == DeriveFeatures(CleanSales(raw_data.sales), raw_data.products)
        IN  /\ Len(se) = Len(sales_df)
            /\ SelectSeq(raw_data.sales, Survives) # <<>>
                  => Len(se) = Len(SelectSeq(raw_data.sales, Survives))
            /\ \A i \in 1..Len(se) :
                  /\ \A c \in DOMAIN Columns(sales_df[i]) : se[i][c] = sales_df[i][c]
                  /\ ~HasKey(raw_data.products, "product_id", se[i].product_id)
                        => \A c \in ProductColumns : IsNull(se[i][c])
                  /\ ~HasKey(raw_data.customers, "customer_id", se[i].customer_id)
                        => \A c \in CustomerColumns : IsNull(se[i][c])

\* Two transactions were joined, one with a product row and one without.
C4_Witness ==
    /\ Stored("sales_enhanced")
    /\ UniqueKey(raw_data.products, "product_id")
    /\ UniqueKey(raw_data.customers, "customer_id")
    /\ Len(raw_data.products) = 2
    /\ Len(processed_data.sales_enhanced) = 2
    /\ NotNull(processed_data.sales_enhanced[1].product_name)
    /\ IsNull(processed_data.sales_enhanced[2].product_name)
    /\ IsNull(processed_data.sales_enhanced[2].region_name)

\* C5: the rows that survive cleaning are exactly the raw rows with a
\* non-null transaction_id and a non-null total_amount > 0, in their order,
\* repeated transaction_ids included; a row with total_amount 0 or -50 or a
\* null transaction_id is dropped.  When any row survives, these are the
\* rows of sales_enhanced.
C5_CleanerPostcondition ==
    Stored("sales_enhanced") =>
        LET cleaned == CleanSales(raw_data.sales)
            se == processed_data.sales_enhanced
            kept == SelectSeq(raw_data.sales, Survives)
            cols == {"transaction_id", "total_amount", "quantity_sold",
                     "unit_price", "product_id", "customer_id"}
        IN  /\ \A i \in 1..Len(cleaned) : Survives(cleaned[i])
            /\ Len(cleaned) = Len(kept)
            /\ \A i \in 1..Len(cleaned) : \A c \in cols : cleaned[i][c] = kept[i][c]
            /\ \A i \in 1..Len(raw_data.sales) :
                  LET r == raw_data.sales[i]
                  IN  (IsNull(r.transaction_id) \/ r.total_amount = Some(0)
                         \/ r.total_amount = Some(0 - 50))
                      => Len(cleaned) < Len(raw_data.sales)
            /\ kept # <<>> =>
                  /\ Len(se) = Len(kept)
                  /\ \A i \in 1..Len(se) :
                        Survives(se[i]) /\ \A c \in cols : se[i][c] = kept[i][c]

\* A row with total_amount 0 was dropped and the row after it was kept.
C5_Witness ==
    /\ Stored("sales_enhanced")
    /\ Len(raw_data.sales) = 2
    /\ raw_data.sales[1].total_amount = Some(0)
    /\ NotNull(raw_data.sales[1].transaction_id)
    /\ Len(processed_data.sales_enhanced) = 1

StageStarts == <<"run:start", "extract:start", "transform:start", "load:start">>
StageErrors == <<"connect:error", "extract:db_error", "transform:error", "load:error">>
Started == SelectSeq(log, LAMBDA m : \E k \in 1..Len(StageStarts) : m = StageStarts[k])

\* C6, as amended: the stages start in the order connect, extract,
\* transform, load, each only after every earlier stage completed without
\* failure; once connect, a database read of extract, transform or load
\* fails, no later stage starts and the run returns False; the run returns
\* True only if all four stages completed.  (A failed read of the Excel
\* targets file is logged and fails nothing.)
C6_FailFastStages ==
    /\ IsPrefix(Started, StageStarts)
    /\ \A k \in 1..Len(StageErrors) :
          Logged(StageErrors[k]) => (Len(Started) = k /\ result = "False")
    /\ result = "True" =>
          (Len(Started) = Len(StageStarts)
             /\ \A k \in 1..Len(StageErrors) : ~Logged(StageErrors[k]))
    /\ pc = "done" <=> result # "None"

\* The Excel read failed, transform and load still started, and the run
\* returned False when load failed.
C6_Witness ==
    /\ Logged("extract:excel_error")
    /\ Logged("load:error")
    /\ Len(Started) = Len(StageStarts)
    /\ result = "False"

\* C6 as claimed: the same, with any failed read inside a stage, the Excel
\* read included, stopping the run.
C6_FailFastAnyRead ==
    /\ C6_FailFastStages
    /\ Logged("extract:excel_error") =>
          (~Logged("transform:start") /\ result # "True")

\* C7: a run that returns False has written no output table to the file
\* sink or the database sink; each sink holds all output tables or none.
C7_NoPartialOutput ==
    /\ result = "False" => (csv_files = {} /\ db_tables = {})
    /\ csv_files = {} \/ csv_files = {OutputTables[i] : i \in 1..Len(OutputTables)}
    /\ db_tables = {} \/ db_tables = {OutputTables[i] : i \in 1..Len(OutputTables)}

\* C8: every retained transaction has a non-null revenue, equal to
\* quantity_sold * unit_price, also when the raw quantity_sold or unit_price
\* may be null.
C8_RevenueTotality ==
    TransformSucceeded =>
        \A i \in 1..Len(processed_data.sales_enhanced) :
            LET t == processed_data.sales_enhanced[i]
            IN  /\ NotNull(t.revenue)
                /\ (NotNull(t.quantity_sold) /\ NotNull(t.unit_price))
                      => Val(t.revenue) = Val(t.quantity_sold) * Val(t.unit_price)

\* C9: product_performance has one row per (category_name, product_name)
\* and is ordered by revenue descending, rows of equal revenue by
\* (category_name, product_name) ascending.
C9_ProductPerformanceOrder ==
    TransformSucceeded =>
        LET pp == processed_data.product_performance
            key(r) == <<r.category_name, r.product_name>>
        IN  /\ \A i \in 1..Len(pp) : \A j \in 1..Len(pp) :
                  i # j => key(pp[i]) # key(pp[j])
            /\ \A i \in 1..Len(pp) : \A j \in 1..Len(pp) :
                  i < j => \/ Val(pp[i].revenue) > Val(pp[j].revenue)
                           \/ /\ Val(pp[i].revenue) = Val(pp[j].revenue)
                              /\ KeyLess(key(pp[i]), key(pp[j]))

\* C10: every customer_segments row has transaction_frequency >= 1, so
\* avg_order_value never divides by zero, and its transaction_frequency is
\* the number of sales_enhanced rows with its customer_id.
C10_FrequencyAtLeastOne ==
    Stored("customer_segments") =>
        \A i \in 1..Len(processed_data.customer_segments) :
            LET m == processed_data.customer_segments[i]
                se == processed_data.sales_enhanced
            IN  /\ Val(m.transaction_frequency) >= 1
                /\ m.avg_order_value[2] # 0
                /\ Val(m.transaction_frequency)
                     = Cardinality({ j \in 1..Len(se) : se[j].customer_id = m.customer_id })

\* A customer with two retained transactions.
C10_Witness ==
    /\ Stored("customer_segments")
    /\ \E i \in 1..Len(processed_data.customer_segments) :
          Val(processed_data.customer_segments[i].transaction_frequency) = 2

====
